---- MODULE Spec2Model ----
(***************************************************************************)
(* A model of the cross-signing trust engine of hydrogen-web:              *)
(*   - SessionStore (src/matrix/storage/idb/stores/SessionStore.ts): the   *)
(*     session key-value store that mirrors e2ee entries to localStorage;  *)
(*   - CrossSigning (src/matrix/verification/CrossSigning.ts): own master  *)
(*     key verification, the signing operations, getUserTrust and the      *)
(*     admission of SAS verification sessions.                             *)
(* Asynchronous methods are cut at their awaits: each action is one        *)
(* synchronous segment of a method, from a call or a resumption to the     *)
(* next await or the return.                                               *)
(***************************************************************************)
EXTENDS Naturals, Sequences, FiniteSets, TLC

VARIABLES
    idb,                        \* SessionStore._sessionStore: key -> value | Absent
    ls,                         \* SessionStore._localStorage: sequence of [k, v]
    rs,                         \* the running tryRestoreE2EEIdentityFromLocalStorage call
    wb,                         \* the running writeE2EEIdentityToLocalStorage cursor
    last,                       \* history: the last completed store operation
    clean,                      \* history: no secondary-medium failure, no loss so far
    isMasterKeyTrusted,         \* CrossSigning._isMasterKeyTrusted
    vf,                         \* the running verifyMSKFrom4S call (of load or start)
    op,                         \* the running signing operation or getUserTrust call
    sasVerificationInProgress,  \* CrossSigning.sasVerificationInProgress
    replaced,                   \* the unfinished sessions the engine no longer refers to
    created,                    \* history: the number of sessions created
    delivered                   \* history: the last inbound message and what it did

storeVars == <<idb, ls, rs, wb, last, clean>>
csVars == <<isMasterKeyTrusted, vf, op>>
sasVars == <<sasVerificationInProgress, replaced, created, delivered>>
vars == <<idb, ls, rs, wb, last, clean, isMasterKeyTrusted, vf, op,
          sasVerificationInProgress, replaced, created, delivered>>

(***************************************************************************)
(* Strings are sequences of tokens, so that concatenation, startsWith and  *)
(* substr are computed, not assumed.                                       *)
(***************************************************************************)
StartsWith(s, p) == Len(s) >= Len(p) /\ SubSeq(s, 1, Len(p)) = p

Substr(s, n) == SubSeq(s, n + 1, Len(s))

Absent == "absent"

NoKey == <<>>

(***************************************************************************)
(*                              SessionStore                               *)
(***************************************************************************)
databaseName == <<"db">>

SESSION_E2EE_KEY_PREFIX == <<"e2ee:">>

\* The keys callers use, in the key order of the object store's cursor.
StoreKeySeq == << <<"e2ee:", "a">>, <<"e2ee:", "b">>, <<"sync">> >>

StoreKeys == {StoreKeySeq[n] : n \in 1..Len(StoreKeySeq)}

Values == {"v1", "v2"}

\* The values callers write under a key.
ValuesOf(key) == IF key[1] = "e2ee:" THEN Values ELSE {"v1"}

\* An entry of another application in the same localStorage.
ForeignEntry == [k |-> <<"other">>, v |-> <<"raw">>]

Stringify(value) == <<"json", value>>

Parse(text) == text[2]

\* Store<SessionEntry>: put is an upsert, add is insert-only, delete removes.
IdbPut(store, key, value) == [store EXCEPT ![key] = value]

IdbAdd(store, key, value) ==
    IF store[key] = Absent THEN [store EXCEPT ![key] = value] ELSE store

IdbDelete(store, key) == [store EXCEPT ![key] = Absent]

IdbGetKey(store, key) == IF store[key] # Absent THEN key ELSE NoKey

\* IDOMStorage: key(i) enumerates the entries in l's order.
LsIndexOf(l, k) ==
    IF \E n \in 1..Len(l) : l[n].k = k
    THEN CHOOSE n \in 1..Len(l) : l[n].k = k
    ELSE 0

LsHas(l, k) == LsIndexOf(l, k) # 0

GetItem(l, k) == l[LsIndexOf(l, k)].v

SetItem(l, k, v) ==
    IF LsHas(l, k)
    THEN [l EXCEPT ![LsIndexOf(l, k)].v = v]
    ELSE Append(l, [k |-> k, v |-> v])

RemoveItem(l, k) == SelectSeq(l, LAMBDA e : e.k # k)

\* `${databaseName}.session.`
lsPrefix == databaseName \o <<".session.">>

\* a derived key without the ".session." infix
LsKeyMutNoInfix(key) == databaseName \o key

\* `${databaseName}.session.${key}`
LsKey(key) == lsPrefix \o key

\* the key that remove() hands to removeItem: databaseName + key
RemoveLsKey(key) == databaseName \o key

\* a prefix test that takes every key for a secret one
IsE2EEKeyMutAll(key) == TRUE

\* key.startsWith(SESSION_E2EE_KEY_PREFIX)
IsE2EEKey(key) == StartsWith(key, SESSION_E2EE_KEY_PREFIX)

\* a mirror write that writes nothing
WriteKeyToLocalStorageMutDrop(l, key, value, fails) == l

\* _writeKeyToLocalStorage: a failing setItem (or stringify) is caught and logged.
WriteKeyToLocalStorage(l, key, value, fails) ==
    IF fails THEN l ELSE SetItem(l, LsKey(key), Stringify(value))

\* History of the last store operation.  stage follows a set or add through
\* the loss of the primary store and a restore: written, lost, restoring, restored.
Done(o, key, value, mirrored, threw, primary, stage) ==
    [op |-> o, key |-> key, value |-> value, mirrored |-> mirrored, threw |-> threw,
     primary |-> primary, stage |-> stage, result |-> FALSE, kept |-> FALSE]

Plain(o) == Done(o, NoKey, Absent, FALSE, FALSE, FALSE, "none")

\* set(key, value)
Set(key, value, fails) ==
    /\ ls' = IF IsE2EEKey(key) THEN WriteKeyToLocalStorage(ls, key, value, fails) ELSE ls
    /\ idb' = IdbPut(idb, key, value)
    /\ last' = Done("set", key, value, IsE2EEKey(key) /\ ~fails, FALSE, TRUE, "written")
    /\ clean' = (clean /\ ~(IsE2EEKey(key) /\ fails))
    /\ UNCHANGED <<rs, wb, csVars, sasVars>>

\* add(key, value)
Add(key, value, fails) ==
    /\ ls' = IF IsE2EEKey(key) THEN WriteKeyToLocalStorage(ls, key, value, fails) ELSE ls
    /\ idb' = IdbAdd(idb, key, value)
    /\ last' = Done("add", key, value, IsE2EEKey(key) /\ ~fails, FALSE, TRUE, "written")
    /\ clean' = (clean /\ ~(IsE2EEKey(key) /\ fails))
    /\ UNCHANGED <<rs, wb, csVars, sasVars>>

\* remove(key): removeItem is not guarded, so its failure leaves remove before
\* the delete.
Remove(key, fails) ==
    /\ IF IsE2EEKey(key) /\ fails
       THEN /\ UNCHANGED <<ls, idb>>
            /\ last' = Done("remove", key, Absent, FALSE, TRUE, FALSE, "none")
       ELSE /\ ls' = IF IsE2EEKey(key) THEN RemoveItem(ls, RemoveLsKey(key)) ELSE ls
            /\ idb' = IdbDelete(idb, key)
            /\ last' = Done("remove", key, Absent, FALSE, FALSE, TRUE, "none")
    /\ clean' = (clean /\ ~(IsE2EEKey(key) /\ fails))
    /\ UNCHANGED <<rs, wb, csVars, sasVars>>

\* The host environment wipes the primary store.
LosePrimary ==
    /\ \E k \in StoreKeys : idb[k] # Absent
    /\ idb' = [k \in StoreKeys |-> Absent]
    /\ last' = IF last.stage = "written" THEN [last EXCEPT !.stage = "lost"] ELSE Plain("loss")
    /\ clean' = FALSE
    /\ UNCHANGED <<ls, rs, wb, csVars, sasVars>>

\* tryRestoreE2EEIdentityFromLocalStorage, the filter of its loop
RestoreMatches(lsKey) == StartsWith(lsKey, lsPrefix \o SESSION_E2EE_KEY_PREFIX)

RECURSIVE NextMatch(_, _)
NextMatch(l, from) ==
    IF from > Len(l) THEN from
    ELSE IF RestoreMatches(l[from].k) THEN from
    ELSE NextMatch(l, from + 1)

\* a check that never finds the key
HasKeyMutNever(store, key) == FALSE

\* (await this._sessionStore.getKey(key)) === key

HasKey(store, key) == IdbGetKey(store, key) = key

RestoreIdle ==
    [pc |-> "idle", i |-> 0, key |-> NoKey, value |-> Absent, hasKey |-> FALSE,
     held |-> FALSE, success |-> FALSE, kept |-> FALSE]

\* The loop of tryRestore... from index `from` (1-based) to its next await, the
\* getKey request on `store`, or to its end.  held and kept are history: whether
\* the store held the key when the request was made, and whether the loop has
\* passed a key the store held with another value than the mirror's.
RestoreLoop(store, from, success, kept) ==
    LET j == NextMatch(ls, from) IN
    IF j > Len(ls)
    THEN [RestoreIdle EXCEPT !.pc = "done", !.success = success, !.kept = kept]
    ELSE LET lsKey == ls[j].k
             key == Substr(lsKey, Len(lsPrefix))
         IN [pc |-> "await", i |-> j, key |-> key,
             value |-> Parse(GetItem(ls, lsKey)),
             hasKey |-> HasKey(store, key),
             held |-> store[key] # Absent,
             success |-> success, kept |-> kept]

\* The call's return: its result goes to the history and the call is over.
Returned(r) == [Plain("restore") EXCEPT !.result = r.success, !.kept = r.kept]

RestoreBegin ==
    /\ rs.pc = "idle"
    /\ wb.pc = "idle"
    /\ LET r == RestoreLoop(idb, 1, FALSE, FALSE) IN
       /\ rs' = IF r.pc = "done" THEN RestoreIdle ELSE r
       /\ last' = IF last.stage = "lost"
                  THEN IF r.pc = "done"
                       THEN [last EXCEPT !.stage = "restored", !.result = r.success,
                                         !.kept = r.kept]
                       ELSE [last EXCEPT !.stage = "restoring"]
                  ELSE IF r.pc = "done" THEN Returned(r) ELSE Plain("restoring")
    /\ UNCHANGED <<idb, ls, wb, clean, csVars, sasVars>>

RestoreResume ==
    /\ rs.pc = "await"
    /\ idb' = IF ~rs.hasKey THEN IdbPut(idb, rs.key, rs.value) ELSE idb
    /\ LET r == RestoreLoop(idb', rs.i + 1, rs.success \/ ~rs.hasKey,
                            rs.kept \/ (rs.held /\ idb[rs.key] # rs.value))
       IN
       /\ rs' = IF r.pc = "done" THEN RestoreIdle ELSE r
       /\ last' = IF last.stage = "restoring"
                  THEN IF r.pc = "done"
                       THEN [last EXCEPT !.stage = "restored", !.result = r.success,
                                         !.kept = r.kept]
                       ELSE last
                  ELSE IF r.pc = "done" THEN Returned(r) ELSE Plain("restoring")
    /\ UNCHANGED <<ls, wb, clean, csVars, sasVars>>

\* writeE2EEIdentityToLocalStorage: iterateValues opens a cursor over the store.
\* History: stage is backing while no other operation has run since, mirrored
\* while no write of the backup has failed.
WriteBackupBegin ==
    /\ wb.pc = "idle"
    /\ rs.pc = "idle"
    /\ wb' = [pc |-> "iter", pos |-> 0]
    /\ last' = [Plain("writeBackup") EXCEPT !.stage = "backing", !.mirrored = TRUE]
    /\ UNCHANGED <<idb, ls, rs, clean, csVars, sasVars>>

\* the cursor's next entry and the callback on it; the callback returns false,
\* so the cursor goes on to the end
WriteBackupStep(fails) ==
    /\ wb.pc = "iter"
    /\ LET rest == {n \in (wb.pos + 1)..Len(StoreKeySeq) : idb[StoreKeySeq[n]] # Absent}
           alone == last.op = "writeBackup" /\ last.stage = "backing"
       IN
       IF rest = {}
       THEN /\ wb' = [pc |-> "idle", pos |-> 0]
            /\ ls' = ls
            /\ clean' = clean
            /\ last' = IF alone THEN [last EXCEPT !.stage = "backed"]
                       ELSE Plain("writeBackup")
       ELSE LET n == CHOOSE m \in rest : \A q \in rest : m <= q
                key == StoreKeySeq[n]
            IN /\ wb' = [pc |-> "iter", pos |-> n]
               /\ ls' = IF IsE2EEKey(key)
                        THEN WriteKeyToLocalStorage(ls, key, idb[key], fails)
                        ELSE ls
               /\ clean' = (clean /\ ~(IsE2EEKey(key) /\ fails))
               /\ last' = IF alone
                          THEN [last EXCEPT !.mirrored = @ /\ ~(IsE2EEKey(key) /\ fails)]
                          ELSE Plain("writeBackup")
    /\ UNCHANGED <<idb, rs, csVars, sasVars>>

StoreInit ==
    /\ idb = [k \in StoreKeys |-> Absent]
    /\ ls = <<ForeignEntry>>
    /\ rs = RestoreIdle
    /\ wb = [pc |-> "idle", pos |-> 0]
    /\ last = Plain("none")
    /\ clean = TRUE

StoreNext ==
    \/ \E key \in StoreKeys, fails \in BOOLEAN : \E value \in ValuesOf(key) : Set(key, value, fails)
    \/ \E key \in StoreKeys, fails \in BOOLEAN : \E value \in ValuesOf(key) : Add(key, value, fails)
    \/ \E key \in StoreKeys, fails \in BOOLEAN : Remove(key, fails)
    \/ LosePrimary
    \/ RestoreBegin
    \/ RestoreResume
    \/ WriteBackupBegin
    \/ \E fails \in BOOLEAN : WriteBackupStep(fails)

(***************************************************************************)
(*                              CrossSigning                               *)
(***************************************************************************)
ownUserId == "@me"

otherUserId == "@bob"

UserIds == {ownUserId, otherUserId}

\* KeyUsage
Master == "master"

SelfSigning == "self_signing"

UserSigning == "user_signing"

\* number of devices devicesForUsers may return
MaxDevices == 2

\* platform.encoding.base64.decode
Base64Decode(seedStr) == <<"bytes", seedStr>>

NoSeed == <<>>

NoPub == <<>>

\* olm.PkSigning.init_with_seed: the public key of a private seed
InitWithSeed(seed) == <<"pub", seed[2]>>

Pub(seedStr) == InitWithSeed(Base64Decode(seedStr))

\* `ed25519:`
prefix == <<"ed25519:">>

\* A CrossSigningKey or a DeviceKey in the format of the server; usage is empty
\* for a device key, device_id is 0 for a cross-signing key.
NoObj == [user_id |-> "", usage |-> <<>>, device_id |-> 0, keys |-> {}, signatures |-> {}]

KeyEntry(pub) == [id |-> prefix \o pub, pub |-> pub]

CrossSigningKey(user, usage, pubs, sigs) ==
    [user_id |-> user, usage |-> <<usage>>, device_id |-> 0,
     keys |-> {KeyEntry(pub) : pub \in pubs}, signatures |-> sigs]

DeviceKey(user, n, sigs) ==
    [user_id |-> user, usage |-> <<>>, device_id |-> n,
     keys |-> {[id |-> <<"ed25519:", "DEVICE">>, pub |-> Pub("deviceSeed")],
               [id |-> <<"curve25519:", "DEVICE">>, pub |-> <<"curve", "deviceSeed">>]},
     signatures |-> sigs]

\* the signable form: the object without its signatures
Canonical(value) == [value EXCEPT !.signatures = {}]

\* signatures[user][`ed25519:${keyPub}`], made with the seed seedStr over value
SignatureEntry(user, keyPub, seedStr, value) ==
    [user |-> user, keyid |-> prefix \o keyPub,
     sig |-> [by |-> Pub(seedStr), over |-> Canonical(value)]]

WithSignature(value, user, keyPub, seedStr) ==
    [value EXCEPT !.signatures = @ \cup {SignatureEntry(user, keyPub, seedStr, value)}]

\* olmUtil.ed25519_verify
Ed25519Verify(ed25519Key, message, signature) ==
    signature.by = ed25519Key /\ signature.over = message

\* verifyEd25519Signature(olmUtil, userId, deviceOrKeyId, ed25519Key, value)
VerifyEd25519Signature(userId, deviceOrKeyId, ed25519Key, value) ==
    LET found == {e \in value.signatures :
                    e.user = userId /\ e.keyid = prefix \o deviceOrKeyId}
    IN IF found = {} THEN "NotSigned"
       ELSE IF \A e \in found : Ed25519Verify(ed25519Key, Canonical(value), e.sig)
       THEN "Valid"
       ELSE "Invalid"

\* a lookup that never finds a sole ed25519 key
GetKeyEd25519KeyMutNone(keyInfo) == NoPub

\* a lookup that, among several ed25519 key ids, takes one instead of none
GetKeyEd25519KeyMutTakesOne(keyInfo) ==
    LET ed25519KeyIds == {e \in keyInfo.keys : StartsWith(e.id, prefix)} IN
    IF ed25519KeyIds = {} THEN NoPub
    ELSE (CHOOSE e \in ed25519KeyIds :
             Cardinality(ed25519KeyIds) = 1 \/ e.pub # <<"pub", "extra">>).pub

\* getKeyEd25519Key
GetKeyEd25519Key(keyInfo) ==
    LET ed25519KeyIds == {e \in keyInfo.keys : StartsWith(e.id, prefix)} IN
    IF Cardinality(ed25519KeyIds) # 1 THEN NoPub
    ELSE (CHOOSE e \in ed25519KeyIds : TRUE).pub

\* a check that finds every key validly signed
HasValidSignatureFromMutValid(key, signingKey) == "Valid"

\* a check that reports a signature that fails verification as no signature
HasValidSignatureFromMutNotInvalid(key, signingKey) ==
    LET pubKey == GetKeyEd25519Key(signingKey) IN
    IF pubKey = NoPub THEN "NotSigned"
    ELSE IF VerifyEd25519Signature(signingKey.user_id, pubKey, pubKey, key) = "Valid"
    THEN "Valid"
    ELSE "NotSigned"

\* hasValidSignatureFrom
HasValidSignatureFrom(key, signingKey) ==
    LET pubKey == GetKeyEd25519Key(signingKey) IN
    IF pubKey = NoPub THEN "NotSigned"
    ELSE VerifyEd25519Signature(signingKey.user_id, pubKey, pubKey, key)

\* pkSign(olm, keyToSign, signingKey, ownUserId, "")
SignKey(keyToSign, signingKey) ==
    [keyToSign EXCEPT !.signatures = @ \cup
        {[user |-> ownUserId, keyid |-> prefix \o InitWithSeed(signingKey),
          sig |-> [by |-> InitWithSeed(signingKey), over |-> Canonical(keyToSign)]]}]

\* delete keyToSign.signatures
DeleteSignatures(key) == [key EXCEPT !.signatures = {}]

(***************************************************************************)
(* The collaborators.  The secret storage, the device tracker and the      *)
(* homeserver answer each call with any of the values below: their state   *)
(* is not the engine's and may change between two calls.                   *)
(***************************************************************************)
\* secretStorage.readSecret(`m.cross_signing.${usage}`)
Secrets(usage) ==
    CASE usage = Master -> {Absent, "mskSeed"}
      [] usage = SelfSigning -> {Absent, "sskSeed"}
      [] usage = UserSigning -> {Absent, "uskSeed"}

\* Variants of a published object: signed by the expected key, carrying a
\* signature entry under the expected key id that a different seed made,
\* and unsigned.
Variants(base, signerUser, signerSeed) ==
    {base,
     WithSignature(base, signerUser, Pub(signerSeed), signerSeed),
     WithSignature(base, signerUser, Pub(signerSeed), "forged")}

\* a key with two ed25519 key ids
Malformed(key) == [key EXCEPT !.keys = @ \cup {KeyEntry(Pub("extra"))}]

\* deviceTracker.getCrossSigningKeyForUser(userId, usage, hsApi)
PublishedKeys(userId, usage) ==
    {NoObj} \cup
    (CASE userId = ownUserId /\ usage = Master ->
            {CrossSigningKey(ownUserId, Master, {Pub("mskSeed")}, {}),
             CrossSigningKey(ownUserId, Master, {Pub("otherSeed")}, {}),
             Malformed(CrossSigningKey(ownUserId, Master, {Pub("mskSeed")}, {}))}
       [] userId = ownUserId /\ usage = UserSigning ->
            LET base == CrossSigningKey(ownUserId, UserSigning, {Pub("uskSeed")}, {})
            IN Variants(base, ownUserId, "mskSeed")
               \cup {WithSignature(Malformed(base), ownUserId, Pub("mskSeed"), "mskSeed")}
       [] userId = ownUserId /\ usage = SelfSigning -> {}
       [] userId # ownUserId /\ usage = Master ->
            LET base == CrossSigningKey(userId, Master, {Pub("theirMsk")}, {})
            IN Variants(base, ownUserId, "uskSeed")
               \cup {Malformed(WithSignature(base, ownUserId, Pub("uskSeed"), "uskSeed")),
                     WithSignature(Malformed(base), ownUserId, Pub("uskSeed"), "uskSeed")}
       [] userId # ownUserId /\ usage = SelfSigning ->
            LET base == CrossSigningKey(userId, SelfSigning, {Pub("theirSsk")}, {})
            IN Variants(base, userId, "theirMsk")
               \cup {Malformed(WithSignature(base, userId, Pub("theirMsk"), "theirMsk")),
                     WithSignature(Malformed(base), userId, Pub("theirMsk"), "theirMsk")}
       [] userId # ownUserId /\ usage = UserSigning -> {})

\* the device keys of user number n, as the tracker may hold them
DeviceVariants(userId, n) == Variants(DeviceKey(userId, n, {}), userId, "theirSsk")

\* deviceTracker.devicesForUsers([userId], hsApi): any list of up to MaxDevices
\* devices, each device once
DeviceLists(userId) ==
    {l \in UNION {[1..len -> UNION {DeviceVariants(userId, n) : n \in 1..MaxDevices}]
                    : len \in 0..MaxDevices} :
        \A x, y \in 1..Len(l) : x # y => l[x].device_id # l[y].device_id}

\* deviceTracker.deviceForId(ownUserId, deviceId, hsApi)
OwnDevices(n) ==
    {NoObj, DeviceKey(ownUserId, n, {}),
     WithSignature(DeviceKey(ownUserId, n, {}), ownUserId, Pub("deviceSeed"), "deviceSeed")}

\* getSigningKey, after readSecret has answered seedStr
GetSigningKey(seedStr) == IF seedStr # Absent THEN Base64Decode(seedStr) ELSE NoSeed

VfIdle ==
    [pc |-> "idle", caller |-> "none", allowNetwork |-> FALSE, before |-> FALSE,
     derivedPublicKey |-> NoPub, verdict |-> "none", calls |-> <<>>,
     published |-> NoObj]

\* a verification that always hands the network client to the key directory
VerifyMSKFrom4SMutNetwork(caller, allowNetwork) ==
    [VfIdle EXCEPT !.pc = "secret", !.caller = caller, !.allowNetwork = TRUE,
                   !.before = isMasterKeyTrusted, !.calls = << <<"readSecret", Master>> >>]

\* the network client handed to getCrossSigningKeyForUser:
\* allowNetwork ? this.hsApi : undefined
NetworkClient(allowNetwork) == IF allowNetwork THEN "hsApi" ELSE "undefined"

\* verifyMSKFrom4S up to its first await, the readSecret of getSigningKey
VerifyMSKFrom4S(caller, allowNetwork) ==
    [VfIdle EXCEPT !.pc = "secret", !.caller = caller, !.allowNetwork = allowNetwork,
                   !.before = isMasterKeyTrusted, !.calls = << <<"readSecret", Master>> >>]

\* load
Load ==
    /\ vf.pc \in {"idle", "done"}
    /\ vf' = VerifyMSKFrom4S("load", FALSE)
    /\ UNCHANGED <<isMasterKeyTrusted, op, storeVars, sasVars>>

\* start
Start ==
    /\ vf.pc \in {"idle", "done"}
    /\ vf' = IF ~isMasterKeyTrusted
             THEN VerifyMSKFrom4S("start", TRUE)
             ELSE [VfIdle EXCEPT !.pc = "done", !.caller = "start",
                                 !.before = isMasterKeyTrusted]
    /\ UNCHANGED <<isMasterKeyTrusted, op, storeVars, sasVars>>

\* verifyMSKFrom4S from the answer of readSecret to the key fetch
VerifySecret(seedStr) ==
    /\ vf.pc = "secret"
    /\ LET privateMasterKey == GetSigningKey(seedStr) IN
       vf' = IF privateMasterKey = NoSeed
             THEN [vf EXCEPT !.pc = "done", !.verdict = "NoPrivKey"]
             ELSE [vf EXCEPT !.pc = "published",
                             !.derivedPublicKey = InitWithSeed(privateMasterKey),
                             !.calls = Append(@, <<"getCrossSigningKeyForUser",
                                                   NetworkClient(vf.allowNetwork)>>)]
    /\ UNCHANGED <<isMasterKeyTrusted, op, storeVars, sasVars>>

\* verifyMSKFrom4S from the answer of getCrossSigningKeyForUser to its return
VerifyPublished(publishedMasterKey) ==
    /\ vf.pc = "published"
    /\ IF publishedMasterKey = NoObj
       THEN /\ vf' = [vf EXCEPT !.pc = "done", !.verdict = "NoPubKey"]
            /\ UNCHANGED isMasterKeyTrusted
       ELSE LET publisedEd25519Key == GetKeyEd25519Key(publishedMasterKey) IN
            /\ isMasterKeyTrusted' = (publisedEd25519Key # NoPub
                                      /\ publisedEd25519Key = vf.derivedPublicKey)
            /\ vf' = [vf EXCEPT !.pc = "done", !.published = publishedMasterKey,
                                !.verdict = IF isMasterKeyTrusted' THEN "Valid"
                                            ELSE "DerivedPubKeyMismatch"]
    /\ UNCHANGED <<op, storeVars, sasVars>>

\* this.deviceId, as a device number
ownDeviceId == 1

OpIdle ==
    [kind |-> "none", pc |-> "idle", userId |-> "", deviceId |-> 0, gate |-> FALSE,
     calls |-> <<>>, ourMSK |-> NoObj, ourUSK |-> NoObj, theirMSK |-> NoObj,
     theirSSK |-> NoObj, devices |-> <<>>, keyToSign |-> NoObj, result |-> "none",
     out |-> NoObj, trustedAtSign |-> "none", answers |-> <<>>,
     payload |-> [user |-> "", device |-> 0, key |-> NoPub]]

\* a call of kind k: gate is the flag as the call reads it
OpCall(k, userId, deviceId) ==
    [OpIdle EXCEPT !.kind = k, !.userId = userId, !.deviceId = deviceId,
                   !.gate = isMasterKeyTrusted]

OpReturn(o, result) == [o EXCEPT !.pc = "done", !.result = result]

OpAwait(o, pc, call) == [o EXCEPT !.pc = pc, !.calls = Append(@, call)]

\* history: whether a collaborator's answer held a value (a key, a seed, a
\* successful response)
Answered(o, present) == [o EXCEPT !.answers = Append(@, present)]

OpFree == op.pc \in {"idle", "done"}

CsFrame == UNCHANGED <<isMasterKeyTrusted, vf, storeVars, sasVars>>

\* the trust gate of the signing operations: if (!this._isMasterKeyTrusted) return
SignGateMutOpen == TRUE

SignGate == isMasterKeyTrusted

\* signOwnDevice up to the await in signDeviceKey
SignOwnDevice ==
    /\ OpFree
    /\ LET o == OpCall("signOwnDevice", ownUserId, ownDeviceId) IN
       op' = IF ~SignGate THEN OpReturn(o, "absent")
             ELSE OpAwait([o EXCEPT !.keyToSign = DeviceKey(ownUserId, ownDeviceId, {}),
                                    !.calls = <<"getUnsignedDeviceKey">>],
                          "seed", "readSecret")
    /\ CsFrame

\* signDevice up to the await of deviceForId
SignDevice(deviceId) ==
    /\ OpFree
    /\ LET o == OpCall("signDevice", ownUserId, deviceId) IN
       op' = IF ~SignGate THEN OpReturn(o, "absent")
             ELSE OpAwait(o, "deviceForId", "deviceForId")
    /\ CsFrame

\* signDevice from the answer of deviceForId to the await in signDeviceKey
SignDeviceFetched(keyToSign) ==
    /\ op.pc = "deviceForId"
    /\ LET o == Answered(op, keyToSign # NoObj) IN
       op' = IF keyToSign = NoObj THEN OpReturn(o, "absent")
             ELSE OpAwait([o EXCEPT !.keyToSign = DeleteSignatures(keyToSign)],
                          "seed", "readSecret")
    /\ CsFrame

\* signDeviceKey from the answer of readSecret to the await of the upload
SignDeviceKeySeed(seedStr) ==
    /\ op.pc = "seed"
    /\ LET signingKey == GetSigningKey(seedStr)
           o == Answered(op, seedStr # Absent)
       IN
       op' = IF signingKey = NoSeed THEN OpReturn(o, "absent")
             ELSE LET signed == SignKey(op.keyToSign, signingKey) IN
                  OpAwait([o EXCEPT !.keyToSign = signed,
                                     !.trustedAtSign = IF isMasterKeyTrusted THEN "yes" ELSE "no",
                                     !.payload = [user |-> signed.user_id,
                                                  device |-> signed.device_id,
                                                  key |-> NoPub]],
                          "upload", "uploadSignatures")
    /\ CsFrame

\* the own-user check of signUser: if (userId === this.ownUserId) return
IsOwnUserMutNever(userId) == FALSE

IsOwnUser(userId) == userId = ownUserId

\* signUser up to the await of getCrossSigningKeyForUser
SignUser(userId) ==
    /\ OpFree
    /\ LET o == OpCall("signUser", userId, 0) IN
       op' = IF ~SignGate THEN OpReturn(o, "absent")
             ELSE IF IsOwnUser(userId) THEN OpReturn(o, "absent")
             ELSE OpAwait(o, "keyToSign", "getCrossSigningKeyForUser")
    /\ CsFrame

\* signUser from the answer of getCrossSigningKeyForUser to the await of readSecret
SignUserFetched(keyToSign) ==
    /\ op.pc = "keyToSign"
    /\ LET o == Answered(op, keyToSign # NoObj) IN
       op' = IF keyToSign = NoObj THEN OpReturn(o, "absent")
             ELSE OpAwait([o EXCEPT !.keyToSign = keyToSign], "userSeed", "readSecret")
    /\ CsFrame

\* signUser from the answer of readSecret to the await of the upload
SignUserSeed(seedStr) ==
    /\ op.pc = "userSeed"
    /\ LET signingKey == GetSigningKey(seedStr)
           o == Answered(op, seedStr # Absent)
       IN
       op' = IF signingKey = NoSeed THEN OpReturn(o, "absent")
             ELSE LET signed == SignKey(DeleteSignatures(op.keyToSign), signingKey) IN
                  OpAwait([o EXCEPT !.keyToSign = signed,
                                     !.trustedAtSign = IF isMasterKeyTrusted THEN "yes" ELSE "no",
                                     !.payload = [user |-> signed.user_id, device |-> 0,
                                                  key |-> GetKeyEd25519Key(signed)]],
                          "upload", "uploadSignatures")
    /\ CsFrame

\* a response handling that returns the signed object whatever the response
UploadResponseMutSwallow(ok) ==
    /\ op.pc = "upload"
    /\ op' = [OpReturn(Answered(op, ok), "signed") EXCEPT !.out = op.keyToSign]
    /\ CsFrame

\* await request.response(), then return keyToSign; a failed upload rejects
UploadResponse(ok) ==
    /\ op.pc = "upload"
    /\ op' = IF ok THEN [OpReturn(Answered(op, ok), "signed") EXCEPT !.out = op.keyToSign]
             ELSE OpReturn(Answered(op, ok), "rejected")
    /\ CsFrame

\* a gate that lets every call pass
TrustGateMutOpen == TRUE

\* the gate of getUserTrust: if (!this.isMasterKeyTrusted) return OwnSetupError
TrustGate == isMasterKeyTrusted

\* a reducer in which the verdict of the later device replaces a NotSigned or
\* Valid one
LowestMutLastWins(lowest, verification) ==
    IF lowest = "Invalid" THEN "Invalid" ELSE verification

\* a reducer that lets a device key without a signature pass
LowestMutSkipsNotSigned(lowest, verification) ==
    IF lowest = "Invalid" \/ verification = "Invalid" THEN "Invalid" ELSE "Valid"

\* the reducer of getUserTrust over the device keys: first Invalid, then
\* NotSigned, then Valid
Lowest(lowest, verification) ==
    IF lowest = "Invalid" \/ verification = "Invalid" THEN "Invalid"
    ELSE IF lowest = "NotSigned" \/ verification = "NotSigned" THEN "NotSigned"
    ELSE IF lowest = "Valid" \/ verification = "Valid" THEN "Valid"
    ELSE "Invalid"

\* theirDeviceKeys.reduce(..., SignatureVerification.Valid)
RECURSIVE ReduceDevices(_, _, _)
ReduceDevices(theirDeviceKeys, theirSSK, lowest) ==
    IF theirDeviceKeys = <<>> THEN lowest
    ELSE ReduceDevices(Tail(theirDeviceKeys), theirSSK,
                       Lowest(lowest, HasValidSignatureFrom(Head(theirDeviceKeys), theirSSK)))

Verified(o, label) == [o EXCEPT !.calls = Append(@, label)]

\* getUserTrust up to the await of our msk
GetUserTrust(userId) ==
    /\ OpFree
    /\ LET o == OpCall("getUserTrust", userId, 0) IN
       op' = IF ~TrustGate THEN OpReturn(o, "OwnSetupError")
             ELSE OpAwait(o, "ourMSK", "get our msk")
    /\ CsFrame

\* ... from our msk to the await of our usk
TrustOurMSK(ourMSK) ==
    /\ op.pc = "ourMSK"
    /\ op' = IF ourMSK = NoObj THEN OpReturn(op, "OwnSetupError")
             ELSE OpAwait([op EXCEPT !.ourMSK = ourMSK], "ourUSK", "get our usk")
    /\ CsFrame

\* ... from our usk, over its verification, to the await of their msk
TrustOurUSK(ourUSK) ==
    /\ op.pc = "ourUSK"
    /\ op' = IF ourUSK = NoObj THEN OpReturn(op, "OwnSetupError")
             ELSE LET o == Verified([op EXCEPT !.ourUSK = ourUSK], "verify our usk")
                      ourUSKVerification == HasValidSignatureFrom(ourUSK, op.ourMSK)
                  IN IF ourUSKVerification # "Valid" THEN OpReturn(o, "OwnSetupError")
                     ELSE OpAwait(o, "theirMSK", "get their msk")
    /\ CsFrame

\* ... from their msk, over its verification, to the await of their ssk
TrustTheirMSK(theirMSK) ==
    /\ op.pc = "theirMSK"
    /\ op' = IF theirMSK = NoObj THEN OpReturn(op, "UserNotSigned")
             ELSE LET o == Verified([op EXCEPT !.theirMSK = theirMSK], "verify their msk")
                      theirMSKVerification == HasValidSignatureFrom(theirMSK, op.ourUSK)
                  IN IF theirMSKVerification # "Valid"
                     THEN IF theirMSKVerification = "NotSigned"
                          THEN OpReturn(o, "UserNotSigned")
                          ELSE OpReturn(o, "UserSignatureMismatch")
                     ELSE OpAwait(o, "theirSSK", "get their ssk")
    /\ CsFrame

\* ... from their ssk, over its verification, to the await of their devices
TrustTheirSSK(theirSSK) ==
    /\ op.pc = "theirSSK"
    /\ op' = IF theirSSK = NoObj THEN OpReturn(op, "UserSetupError")
             ELSE LET o == Verified([op EXCEPT !.theirSSK = theirSSK], "verify their ssk")
                      theirSSKVerification == HasValidSignatureFrom(theirSSK, op.theirMSK)
                  IN IF theirSSKVerification # "Valid" THEN OpReturn(o, "UserSetupError")
                     ELSE OpAwait(o, "devices", "get their devices")
    /\ CsFrame

\* ... from their devices, over the reduction, to the return
TrustDevices(theirDeviceKeys) ==
    /\ op.pc = "devices"
    /\ LET o == [op EXCEPT !.devices = theirDeviceKeys]
           lowestDeviceVerification == ReduceDevices(theirDeviceKeys, op.theirSSK, "Valid")
       IN op' = IF lowestDeviceVerification # "Valid"
                THEN IF lowestDeviceVerification = "NotSigned"
                     THEN OpReturn(o, "UserDeviceNotSigned")
                     ELSE OpReturn(o, "UserDeviceSignatureMismatch")
                ELSE OpReturn(o, "Trusted")
    /\ CsFrame

CsInit ==
    /\ isMasterKeyTrusted = FALSE
    /\ vf = VfIdle
    /\ op = OpIdle

CsNext ==
    \/ Load
    \/ Start
    \/ \E seedStr \in Secrets(Master) : VerifySecret(seedStr)
    \/ \E key \in PublishedKeys(ownUserId, Master) : VerifyPublished(key)
    \/ SignOwnDevice
    \/ \E deviceId \in 1..MaxDevices : SignDevice(deviceId)
    \/ \E key \in OwnDevices(op.deviceId) : SignDeviceFetched(key)
    \/ \E seedStr \in Secrets(SelfSigning) : SignDeviceKeySeed(seedStr)
    \/ \E userId \in UserIds : SignUser(userId)
    \/ \E key \in PublishedKeys(op.userId, Master) : SignUserFetched(key)
    \/ \E seedStr \in Secrets(UserSigning) : SignUserSeed(seedStr)
    \/ \E ok \in BOOLEAN : UploadResponse(ok)
    \/ \E userId \in UserIds : GetUserTrust(userId)
    \/ \E key \in PublishedKeys(ownUserId, Master) : TrustOurMSK(key)
    \/ \E key \in PublishedKeys(ownUserId, UserSigning) : TrustOurUSK(key)
    \/ \E key \in PublishedKeys(op.userId, Master) : TrustTheirMSK(key)
    \/ \E key \in PublishedKeys(op.userId, SelfSigning) : TrustTheirSSK(key)
    \/ \E keys \in DeviceLists(op.userId) : TrustDevices(keys)

(***************************************************************************)
(*          The verification session trigger of CrossSigning               *)
(***************************************************************************)
\* number of verification sessions created in a run
MaxSessions == 3

\* VerificationEventType
Request == "m.key.verification.request"

StartType == "m.key.verification.start"

Accept == "m.key.verification.accept"

TransactionIds == {"txn1", "txn2"}

NoMessage == [type |-> "none", sender |-> "", transaction_id |-> ""]

\* the unencrypted events the device message handler may deliver
Messages ==
    [type : {Request, StartType, Accept}, sender : UserIds,
     transaction_id : TransactionIds]

NoSession ==
    [sid |-> 0, channelId |-> "", finished |-> FALSE, otherUserId |-> "",
     startingMessage |-> NoMessage]

\* ToDeviceChannel.id: the transaction id of the starting message, or one the
\* channel makes when it sends the request itself
ChannelId(startingMessage) ==
    IF startingMessage = NoMessage THEN "local" ELSE startingMessage.transaction_id

\* the guard of startVerification
SessionBusyMutNever == FALSE

SessionBusy ==
    sasVerificationInProgress # NoSession /\ ~sasVerificationInProgress.finished

\* a handler guard that ignores messages only while the session is unfinished
HandlerIgnoresMutUnfinishedOnly(unencryptedEvent) ==
    sasVerificationInProgress # NoSession /\ ~sasVerificationInProgress.finished

\* a handler guard that ignores every message once any session exists
HandlerIgnoresMutAnySession(unencryptedEvent) == sasVerificationInProgress # NoSession

\* the guard of the message handler
HandlerIgnores(unencryptedEvent) ==
    sasVerificationInProgress # NoSession
    /\ (\/ ~sasVerificationInProgress.finished
        \/ sasVerificationInProgress.channelId = unencryptedEvent.transaction_id)

\* startVerification(userId, startingMessage)
StartVerification(userId, startingMessage) ==
    IF SessionBusy
    THEN UNCHANGED <<sasVerificationInProgress, replaced, created>>
    ELSE /\ created < MaxSessions
         /\ created' = created + 1
         /\ sasVerificationInProgress' =
                [sid |-> created + 1, channelId |-> ChannelId(startingMessage),
                 finished |-> FALSE, otherUserId |-> userId,
                 startingMessage |-> startingMessage]
         /\ replaced' = IF sasVerificationInProgress # NoSession
                           /\ ~sasVerificationInProgress.finished
                        THEN replaced \cup {sasVerificationInProgress}
                        ELSE replaced

\* a handler that starts a session for every Request or Start, whatever the
\* session in progress
OnMessageMutUnguarded(unencryptedEvent) ==
    /\ IF unencryptedEvent.type = Request \/ unencryptedEvent.type = StartType
       THEN /\ created < MaxSessions
            /\ created' = created + 1
            /\ sasVerificationInProgress' =
                   [sid |-> created + 1, channelId |-> ChannelId(unencryptedEvent),
                    finished |-> FALSE, otherUserId |-> unencryptedEvent.sender,
                    startingMessage |-> unencryptedEvent]
            /\ replaced' = IF sasVerificationInProgress # NoSession
                              /\ ~sasVerificationInProgress.finished
                           THEN replaced \cup {sasVerificationInProgress}
                           ELSE replaced
       ELSE UNCHANGED <<sasVerificationInProgress, replaced, created>>
    /\ delivered' = [message |-> unencryptedEvent, started |-> created' # created,
                     before |-> sasVerificationInProgress]
    /\ UNCHANGED <<storeVars, csVars>>

\* deviceMessageHandler.on("message", ...)
OnMessage(unencryptedEvent) ==
    /\ IF HandlerIgnores(unencryptedEvent)
       THEN UNCHANGED <<sasVerificationInProgress, replaced, created>>
       ELSE IF unencryptedEvent.type = Request \/ unencryptedEvent.type = StartType
       THEN StartVerification(unencryptedEvent.sender, unencryptedEvent)
       ELSE UNCHANGED <<sasVerificationInProgress, replaced, created>>
    /\ delivered' = [message |-> unencryptedEvent, started |-> created' # created,
                     before |-> sasVerificationInProgress]
    /\ UNCHANGED <<storeVars, csVars>>

\* a direct call of startVerification, without a starting message
StartVerificationCall(userId) ==
    /\ StartVerification(userId, NoMessage)
    /\ delivered' = [message |-> NoMessage, started |-> created' # created,
                     before |-> sasVerificationInProgress]
    /\ UNCHANGED <<storeVars, csVars>>

\* the SASVerification objects that are not finished
Unfinished ==
    replaced \cup (IF sasVerificationInProgress # NoSession
                      /\ ~sasVerificationInProgress.finished
                   THEN {sasVerificationInProgress} ELSE {})

\* A session ends (done or cancelled): SASVerification.finished becomes true.
FinishSession(session) ==
    /\ session \in Unfinished
    /\ IF session = sasVerificationInProgress
       THEN /\ sasVerificationInProgress' = [sasVerificationInProgress EXCEPT !.finished = TRUE]
            /\ UNCHANGED replaced
       ELSE /\ replaced' = replaced \ {session}
            /\ UNCHANGED sasVerificationInProgress
    /\ UNCHANGED <<created, delivered, storeVars, csVars>>

SasInit ==
    /\ sasVerificationInProgress = NoSession
    /\ replaced = {}
    /\ created = 0
    /\ delivered = [message |-> NoMessage, started |-> FALSE, before |-> NoSession]

SasNext ==
    \/ \E unencryptedEvent \in Messages : OnMessage(unencryptedEvent)
    \/ \E userId \in UserIds : StartVerificationCall(userId)
    \/ \E session \in Unfinished : FinishSession(session)

Init == StoreInit /\ CsInit /\ SasInit

SpecStore == Init /\ [][StoreNext]_vars

SpecCS == Init /\ [][CsNext]_vars

SpecSas == Init /\ [][SasNext]_vars


(***************************************************************************)
(*                               The claims                                *)
(***************************************************************************)
SignKinds == {"signOwnDevice", "signDevice", "signUser"}

\* value carries a signature of signer's sole ed25519 key that verifies
CarriesValidSignature(value, signer) ==
    \E e \in signer.keys :
        /\ e.id[1] = "ed25519:"
        /\ \A f \in signer.keys : f.id[1] = "ed25519:" => f = e
        /\ \E g \in value.signatures :
              g.user = signer.user_id /\ g.keyid = <<"ed25519:">> \o e.pub
        /\ \A g \in value.signatures :
              (g.user = signer.user_id /\ g.keyid = <<"ed25519:">> \o e.pub)
                  => g.sig = [by |-> e.pub, over |-> [value EXCEPT !.signatures = {}]]

\* C1: getUserTrust returns Trusted only if the flag was true when the call
\* read it, the own user-signing key it fetched carries a valid signature of
\* the own master key it fetched, the subject's master key one of the own
\* user-signing key, the subject's self-signing key one of the subject's
\* master key, and every device key it fetched one of the subject's
\* self-signing key.
C1_TrustedOnlyIfChainValid ==
    (op.kind = "getUserTrust" /\ op.pc = "done" /\ op.result = "Trusted") =>
        /\ op.gate
        /\ CarriesValidSignature(op.ourUSK, op.ourMSK)
        /\ CarriesValidSignature(op.theirMSK, op.ourUSK)
        /\ CarriesValidSignature(op.theirSSK, op.theirMSK)
        /\ \A n \in 1..Len(op.devices) : CarriesValidSignature(op.devices[n], op.theirSSK)

C1_Witness ==
    /\ op.kind = "getUserTrust" /\ op.pc = "done" /\ op.result = "Trusted"
    /\ Len(op.devices) = MaxDevices

\* C2: no signing operation adds a signature or calls uploadSignatures while
\* the self-trust flag is false.
C2_NoSigningWhileUntrusted == op.trustedAtSign # "no"

\* C3: a step of the restore changes the primary value of no key but the one
\* it examined and found absent: a key the primary store held when the
\* restore examined it keeps its value.
C3_RestoreNeverOverwrites ==
    [][rs' # rs =>
          \A k \in StoreKeys :
              idb'[k] # idb[k] => (rs.pc = "await" /\ k = rs.key /\ ~rs.held)]_vars

C3_Witness == last.op = "restore" /\ last.kept

\* C4, as stated: set(K, v) or add(K, v) on a secret-prefixed key, then the
\* loss of the primary store, then the restore: get(K) is v and the restore
\* returns true.
C4_RoundTripAlways ==
    (last.stage = "restored" /\ IsE2EEKey(last.key)) =>
        (idb[last.key] = last.value /\ last.result)

\* C4, amended: the same when the write to the mirror did not fail.
C4_RoundTripWhenMirrored ==
    (last.stage = "restored" /\ IsE2EEKey(last.key) /\ last.mirrored) =>
        (idb[last.key] = last.value /\ last.result)

C4_Witness ==
    last.stage = "restored" /\ IsE2EEKey(last.key) /\ last.mirrored /\ last.op = "add"

\* C5: after remove(K) on a secret-prefixed key the secondary medium holds no
\* entry under <store-namespace>.session.<K>.
C5_RemoveUnmirrors ==
    (last.op = "remove" /\ IsE2EEKey(last.key) /\ ~last.threw) =>
        ~LsHas(ls, databaseName \o <<".session.">> \o last.key)

\* C6: set, add and remove complete without raising and perform the primary
\* put, add or delete, also when the secondary medium fails.
C6_MirrorFailureNeverPropagates ==
    last.op \in {"set", "add", "remove"} => (~last.threw /\ last.primary)

\* C7: after a completed verifyMSKFrom4S the flag is true exactly when the
\* verdict is Valid.
C7_TrustedIffValid ==
    (vf.pc = "done" /\ vf.verdict # "none") =>
        (isMasterKeyTrusted <=> vf.verdict = "Valid")

\* a signing operation that has returned
SignReturned == op.kind \in SignKinds /\ op.pc = "done"

\* the collaborators gave the running operation its key to sign (signDevice,
\* signUser) and its signing seed
KeyAndSeedPresent ==
    LET need == IF op.kind = "signOwnDevice" THEN 1 ELSE 2 IN
    Len(op.answers) >= need /\ \A n \in 1..need : op.answers[n]

\* a signing operation called while the flag is false returns absent, calls
\* no collaborator and reads no secret
C8_NoOpWhileUntrusted ==
    (SignReturned /\ ~op.gate) =>
        (op.result = "absent" /\ op.calls = <<>> /\ op.trustedAtSign = "none")

\* C8, as stated: ... and a signing operation called once the flag is true
\* performs the signing.
C8_SignsOnceTrusted ==
    /\ C8_NoOpWhileUntrusted
    /\ (SignReturned /\ op.gate) => op.trustedAtSign # "none"

\* C8, amended: ... and a signing operation called once the flag is true
\* (signUser: for another user) passes the gate, and performs the signing
\* whenever the key to sign and the signing seed are there; it returns the
\* signed object when the upload succeeds.
C8_SignsOnceTrustedGivenInputs ==
    /\ C8_NoOpWhileUntrusted
    /\ (SignReturned /\ op.gate /\ ~(op.kind = "signUser" /\ op.userId = ownUserId)) =>
          /\ op.calls # <<>>
          /\ KeyAndSeedPresent => op.trustedAtSign # "none"
          /\ (KeyAndSeedPresent /\ \A n \in 1..Len(op.answers) : op.answers[n]) =>
                op.result = "signed"

C8_Witness ==
    /\ SignReturned /\ op.gate /\ op.result = "signed"
    /\ vf.pc = "done" /\ vf.verdict = "Valid" /\ ~vf.before

\* C9: signUser with the own user id returns absent, fetches no key, uploads
\* nothing and reads no seed, whether the flag is true or false.
C9_SignOwnUserIsNoOp ==
    (op.kind = "signUser" /\ op.userId = ownUserId) =>
        /\ op.pc = "done"
        /\ op.result = "absent"
        /\ op.calls = <<>>
        /\ op.trustedAtSign = "none"

C9_Witness ==
    op.kind = "signUser" /\ op.userId = ownUserId /\ op.pc = "done" /\ op.gate

\* C10: at most one session is unfinished at any time, and the session in
\* progress is not replaced while it is unfinished.
C10_OneUnfinishedSession ==
    /\ [](Cardinality(Unfinished) <= 1)
    /\ [][(sasVerificationInProgress # NoSession /\ ~sasVerificationInProgress.finished)
            => sasVerificationInProgress'.sid = sasVerificationInProgress.sid]_vars

C10_Witness ==
    /\ created = MaxSessions
    /\ sasVerificationInProgress # NoSession /\ ~sasVerificationInProgress.finished
    /\ delivered.message.type \in {Request, StartType} /\ ~delivered.started

\* the steps of getUserTrust that call a collaborator or verify a signature,
\* in the order of the source
TrustSteps ==
    <<"get our msk", "get our usk", "verify our usk", "get their msk", "verify their msk",
      "get their ssk", "verify their ssk", "get their devices">>

IsPrefix(s, t) == Len(s) <= Len(t) /\ SubSeq(t, 1, Len(s)) = s

\* value carries a signature entry under the sole ed25519 key of signer
CarriesSignatureEntry(value, signer) ==
    \E e \in signer.keys :
        /\ e.id[1] = "ed25519:"
        /\ \A f \in signer.keys : f.id[1] = "ed25519:" => f = e
        /\ \E g \in value.signatures :
              g.user = signer.user_id /\ g.keyid = <<"ed25519:">> \o e.pub

\* the first four steps succeeded for what the call o read and fetched
OwnSetupOk(o) ==
    /\ o.gate
    /\ o.ourMSK # NoObj
    /\ o.ourUSK # NoObj
    /\ CarriesValidSignature(o.ourUSK, o.ourMSK)

\* ... and the subject's master key is there and validly signed by our usk
TheirMSKOk(o) ==
    OwnSetupOk(o) /\ o.theirMSK # NoObj /\ CarriesValidSignature(o.theirMSK, o.ourUSK)

\* ... and the subject's self-signing key is there and validly signed by
\* their msk
TheirSSKOk(o) ==
    TheirMSKOk(o) /\ o.theirSSK # NoObj /\ CarriesValidSignature(o.theirSSK, o.theirMSK)

\* the number of steps up to and including the first that fails
StepsUntilFailure(o) ==
    IF ~o.gate THEN 0
    ELSE IF o.ourMSK = NoObj THEN 1
    ELSE IF o.ourUSK = NoObj THEN 2
    ELSE IF ~OwnSetupOk(o) THEN 3
    ELSE IF o.theirMSK = NoObj THEN 4
    ELSE IF ~TheirMSKOk(o) THEN 5
    ELSE IF o.theirSSK = NoObj THEN 6
    ELSE IF ~TheirSSKOk(o) THEN 7
    ELSE 8

TrustReturned == op.kind = "getUserTrust" /\ op.pc = "done"

\* C11: the calls getUserTrust has made are a prefix of its steps in their
\* fixed order, and when it returns it has made the steps up to the first
\* failing one and none after it.
C11_StepsInOrderNoneAfterFailure ==
    op.kind = "getUserTrust" =>
        /\ IsPrefix(op.calls, TrustSteps)
        /\ op.pc = "done" => Len(op.calls) = StepsUntilFailure(op)

C11_Witness ==
    /\ TrustReturned /\ op.result = "UserSignatureMismatch"
    /\ op.calls = SubSeq(TrustSteps, 1, 5)

C13_AbsentOrUnsignedVersusMismatch ==
    (TrustReturned /\ OwnSetupOk(op)) =>
        /\ (op.theirMSK = NoObj \/ ~CarriesSignatureEntry(op.theirMSK, op.ourUSK))
              => op.result = "UserNotSigned"
        /\ (op.theirMSK # NoObj /\ CarriesSignatureEntry(op.theirMSK, op.ourUSK)
              /\ ~CarriesValidSignature(op.theirMSK, op.ourUSK))
              => op.result = "UserSignatureMismatch"

C13_Witness ==
    /\ TrustReturned /\ OwnSetupOk(op) /\ op.theirMSK # NoObj
    /\ CarriesSignatureEntry(op.theirMSK, op.ourUSK)
    /\ ~CarriesValidSignature(op.theirMSK, op.ourUSK)
    /\ op.userId = otherUserId

\* C14: with the subject's master key validly signed by our usk, getUserTrust
\* returns UserSetupError when the subject's self-signing key is absent or
\* carries no valid signature of the subject's master key, and has then not
\* fetched the devices.
C14_UserSetupErrorNoDeviceFetch ==
    (TrustReturned /\ TheirMSKOk(op) /\ ~TheirSSKOk(op)) =>
        /\ op.result = "UserSetupError"
        /\ \A n \in 1..Len(op.calls) : op.calls[n] # "get their devices"
        /\ op.devices = <<>>

C14_Witness ==
    /\ TrustReturned /\ TheirMSKOk(op) /\ op.theirSSK # NoObj
    /\ ~CarriesValidSignature(op.theirSSK, op.theirMSK)

\* the verdicts of the fetched devices against the subject's self-signing key
DeviceVerdicts(o) ==
    {HasValidSignatureFrom(o.devices[n], o.theirSSK) : n \in 1..Len(o.devices)}

\* C15: once the devices are fetched the verdict is
\* UserDeviceSignatureMismatch if any device is Invalid, else
\* UserDeviceNotSigned if any is NotSigned, else Trusted, in whatever order
\* the devices come.
C15_WorstDeviceVerdictWins ==
    (TrustReturned /\ TheirSSKOk(op)) =>
        op.result = IF "Invalid" \in DeviceVerdicts(op) THEN "UserDeviceSignatureMismatch"
                    ELSE IF "NotSigned" \in DeviceVerdicts(op) THEN "UserDeviceNotSigned"
                    ELSE "Trusted"

C15_Witness ==
    /\ TrustReturned /\ TheirSSKOk(op) /\ Len(op.devices) = MaxDevices
    /\ HasValidSignatureFrom(op.devices[1], op.theirSSK) = "NotSigned"
    /\ HasValidSignatureFrom(op.devices[MaxDevices], op.theirSSK) = "Valid"
    /\ op.result = "UserDeviceNotSigned"

C15_WitnessEmpty ==
    TrustReturned /\ TheirSSKOk(op) /\ op.devices = <<>> /\ op.result = "Trusted"

\* the ed25519 entries of a published key
Ed25519Entries(keyInfo) == {e \in keyInfo.keys : e.id[1] = "ed25519:"}

\* a verifyMSKFrom4S call that has returned after fetching a published key
VerifiedAgainstPublished == vf.pc = "done" /\ vf.published # NoObj

\* C16: with the seed present and a published master key of exactly one
\* ed25519 entry, the verdict is Valid and the flag true when the derived
\* public key equals the entry, DerivedPubKeyMismatch and the flag false when
\* it differs.
C16_SelfTrustRoundTrip ==
    (VerifiedAgainstPublished /\ Cardinality(Ed25519Entries(vf.published)) = 1) =>
        LET entry == CHOOSE e \in Ed25519Entries(vf.published) : TRUE IN
        IF entry.pub = vf.derivedPublicKey
        THEN vf.verdict = "Valid" /\ isMasterKeyTrusted
        ELSE vf.verdict = "DerivedPubKeyMismatch" /\ ~isMasterKeyTrusted

C16_Witness ==
    /\ VerifiedAgainstPublished /\ Cardinality(Ed25519Entries(vf.published)) = 1
    /\ vf.verdict = "DerivedPubKeyMismatch" /\ vf.before

C16_WitnessValid ==
    /\ VerifiedAgainstPublished /\ Cardinality(Ed25519Entries(vf.published)) = 1
    /\ vf.verdict = "Valid" /\ ~vf.before

\* C17: with the seed present and a published master key that has not exactly
\* one ed25519 key id, the verdict is NoPubKey and the flag is false.
C17_MalformedIsNoPubKey ==
    (VerifiedAgainstPublished /\ Cardinality(Ed25519Entries(vf.published)) # 1) =>
        (vf.verdict = "NoPubKey" /\ ~isMasterKeyTrusted)

\* the key directory calls of the running verification
KeyFetches == {n \in 1..Len(vf.calls) : vf.calls[n][1] = "getCrossSigningKeyForUser"}

\* C18: load calls the key directory without a network client; start verifies,
\* with the network client, only when the flag is false at its call; when the
\* flag is true start reads no secret, fetches no key and leaves the flag true.
C18_LoadOfflineStartOnlyIfUntrusted ==
    /\ vf.caller = "load" =>
          /\ vf.calls # <<>>
          /\ \A n \in KeyFetches : vf.calls[n][2] = "undefined"
    /\ (vf.caller = "start" /\ vf.before) =>
          /\ vf.pc = "done" /\ vf.calls = <<>> /\ vf.verdict = "none"
          /\ isMasterKeyTrusted
    /\ (vf.caller = "start" /\ ~vf.before) =>
          /\ vf.calls # <<>>
          /\ \A n \in KeyFetches : vf.calls[n][2] = "hsApi"

C18_Witness ==
    /\ vf.caller = "start" /\ ~vf.before /\ vf.pc = "done" /\ KeyFetches # {}
    /\ vf.verdict = "Valid"

C18_WitnessSkip == vf.caller = "start" /\ vf.before

C18_WitnessLoad == vf.caller = "load" /\ vf.pc = "done" /\ KeyFetches # {}

\* the last step was the delivery of an inbound message
MessageDelivered == delivered.message # NoMessage

\* C19: a message delivered while a session is in progress and not finished,
\* with a transaction id other than that session's channel id, creates no
\* session and leaves the session reference as it was, whatever its type.
C19_OtherTransactionIgnoredWhileBusy ==
    (/\ MessageDelivered
     /\ delivered.before # NoSession /\ ~delivered.before.finished
     /\ delivered.message.transaction_id # delivered.before.channelId) =>
        /\ ~delivered.started
        /\ sasVerificationInProgress.sid = delivered.before.sid
        /\ sasVerificationInProgress.channelId = delivered.before.channelId

C19_Witness ==
    /\ MessageDelivered
    /\ delivered.before # NoSession /\ ~delivered.before.finished
    /\ delivered.message.transaction_id # delivered.before.channelId
    /\ delivered.message.type = StartType
    /\ delivered.before.channelId \in TransactionIds

\* the session in progress is a new one, bound to the sender of the delivered
\* message and to that message
NewSessionFromMessage ==
    /\ delivered.started
    /\ sasVerificationInProgress.sid # delivered.before.sid
    /\ sasVerificationInProgress.otherUserId = delivered.message.sender
    /\ sasVerificationInProgress.startingMessage = delivered.message

\* C20, as stated: with no session in progress, or the previous one finished,
\* every Request or Start message begins a new session bound to its sender
\* and to itself, which becomes the session in progress.
C20_EveryRequestOrStartBegins ==
    (/\ delivered.message.type \in {Request, StartType}
     /\ (delivered.before = NoSession \/ delivered.before.finished)) =>
        NewSessionFromMessage

\* C20, amended: ... every Request or Start message whose transaction id is
\* not the channel id of the previous session ...
C20_RequestOrStartOfOtherTransactionBegins ==
    (/\ delivered.message.type \in {Request, StartType}
     /\ (\/ delivered.before = NoSession
         \/ /\ delivered.before.finished
            /\ delivered.message.transaction_id # delivered.before.channelId)) =>
        NewSessionFromMessage

C20_Witness ==
    /\ delivered.message.type \in {Request, StartType}
    /\ delivered.before # NoSession /\ delivered.before.finished
    /\ delivered.message.transaction_id # delivered.before.channelId
    /\ delivered.started

\* the uploadSignatures calls of the running operation
Uploads == {n \in 1..Len(op.calls) : op.calls[n] = "uploadSignatures"}

\* C21: signOwnDevice never calls uploadSignatures.
C21_SignOwnDeviceUploadsNothing ==
    op.kind = "signOwnDevice" => Uploads = {}

\* C22: signDevice and signUser have returned nothing while their upload is
\* awaited; they return the signed object only after a successful response;
\* after a failed response the call rejects, returns no object and has made
\* one upload only.
C22_ReturnAfterUploadRejectOnFailure ==
    op.kind \in {"signDevice", "signUser"} =>
        /\ op.pc = "upload" => (op.result = "none" /\ op.out = NoObj)
        /\ (op.pc = "done" /\ op.result = "signed") =>
              /\ Cardinality(Uploads) = 1
              /\ op.answers[Len(op.answers)]
              /\ op.out = op.keyToSign
        /\ (op.pc = "done" /\ Uploads # {} /\ ~op.answers[Len(op.answers)]) =>
              /\ op.result = "rejected"
              /\ op.out = NoObj
              /\ Cardinality(Uploads) = 1

C22_Witness ==
    /\ op.kind = "signUser" /\ op.pc = "done" /\ op.result = "rejected"
    /\ Uploads # {}

C22_WitnessSigned ==
    op.kind = "signDevice" /\ op.pc = "done" /\ op.result = "signed"

\* the chain links getUserTrust has evaluated: <<signed value, signer key>>
Links(o) ==
    {l \in {<<o.ourUSK, o.ourMSK>>, <<o.theirMSK, o.ourUSK>>, <<o.theirSSK, o.theirMSK>>}
            \cup {<<o.devices[n], o.theirSSK>> : n \in 1..Len(o.devices)} :
        l[1] # NoObj /\ l[2] # NoObj}

\* the key has not exactly one ed25519 key id
MalformedKey(keyInfo) == Cardinality(Ed25519Entries(keyInfo)) # 1

\* C27: for a signer key that has not exactly one ed25519 key id
\* hasValidSignatureFrom answers NotSigned, also for a value that carries a
\* signature made with one of the signer's keys, and getUserTrust returns
\* Trusted through no link whose signer key is malformed.
C27_MalformedSignerIsNotSigned ==
    op.kind = "getUserTrust" =>
        /\ \A l \in Links(op) :
              MalformedKey(l[2]) => HasValidSignatureFrom(l[1], l[2]) = "NotSigned"
        /\ (op.pc = "done" /\ op.result = "Trusted") =>
              \A l \in Links(op) : ~MalformedKey(l[2])

C27_Witness ==
    /\ TrustReturned /\ op.result = "UserSetupError"
    /\ \E l \in Links(op) :
          /\ l = <<op.theirSSK, op.theirMSK>>
          /\ MalformedKey(l[2])
          /\ \E e \in Ed25519Entries(l[2]) :
                VerifyEd25519Signature(l[2].user_id, e.pub, e.pub, l[1]) = "Valid"

\* C28: signUser returns absent and uploads nothing for a target master key
\* that has not exactly one ed25519 key id, and every payload it uploads is
\* keyed by the target user id and the target key's single ed25519 entry.
C28_MalformedTargetIsAbsent ==
    (op.kind = "signUser" /\ op.keyToSign # NoObj) =>
        /\ MalformedKey(op.keyToSign) =>
              /\ Uploads = {}
              /\ op.pc = "done" => op.result = "absent"
        /\ Uploads # {} =>
              /\ op.payload.user = op.userId
              /\ op.payload.key # NoPub
              /\ \E e \in Ed25519Entries(op.keyToSign) : e.pub = op.payload.key

\* C26: a message whose transaction id is the channel id of the session in
\* progress starts no session and leaves the session reference as it was,
\* also when that session is finished.
C26_SameTransactionIgnored ==
    (/\ MessageDelivered
     /\ delivered.before # NoSession
     /\ delivered.message.transaction_id = delivered.before.channelId) =>
        /\ ~delivered.started
        /\ sasVerificationInProgress.sid = delivered.before.sid
        /\ sasVerificationInProgress.channelId = delivered.before.channelId

C26_Witness ==
    /\ MessageDelivered
    /\ delivered.before # NoSession /\ delivered.before.finished
    /\ delivered.message.transaction_id = delivered.before.channelId
    /\ delivered.message.type \in {Request, StartType}

\* a caller's key that carries the secret prefix
SecretKeys == {k \in StoreKeys : k[1] = "e2ee:"}

\* the mirror's name for a caller's key: <store-namespace>.session.<key>
MirrorName(k) == <<"db", ".session.">> \o k

\* every secret-prefixed key in the primary store has a mirror entry holding
\* its primary value
AllMirrored ==
    \A k \in SecretKeys :
        idb[k] # Absent =>
            /\ LsHas(ls, MirrorName(k))
            /\ Parse(GetItem(ls, MirrorName(k))) = idb[k]

\* C23: set, add and remove on a key without the secret prefix leave the
\* secondary medium as it is, and after the loss of the primary store and a
\* restore such a key is absent from the primary store.
C23_PlainKeysNeverMirrored ==
    /\ [][(last'.op \in {"set", "add", "remove"} /\ last'.key \notin SecretKeys)
             => ls' = ls]_vars
    /\ []((last.stage = "restored" /\ last.key \notin SecretKeys) =>
             idb[last.key] = Absent)

C23_Witness ==
    /\ last.stage = "restored" /\ last.key \notin SecretKeys
    /\ Len(ls) > 1

\* C24: at the restore's insert of a key it found absent, if a set of that key
\* has since taken effect, the primary store keeps the value of the set.
C24_NoOverwriteRace ==
    [][(/\ rs.pc = "await" /\ rs' # rs /\ ~rs.held
        /\ last.op = "set" /\ last.key = rs.key /\ idb[rs.key] = last.value)
          => idb'[rs.key] = last.value]_vars

\* a writeBackup has run to its end with no other operation in between
BackupDone == last.op = "writeBackup" /\ last.stage = "backed" /\ wb.pc = "idle"

\* C25, as stated: after writeBackup every secret-prefixed primary entry has
\* a mirror entry holding its primary value.
C25_BackupMirrorsAll == BackupDone => AllMirrored

\* C25, amended: ... after a writeBackup none of whose writes to the secondary
\* medium failed ...; and no step of the iteration changes the primary store
\* or a mirror entry of another name than a secret key's.
C25_BackupMirrorsAllUnlessWriteFails ==
    /\ []((BackupDone /\ last.mirrored) => AllMirrored)
    /\ [][wb' # wb =>
            /\ idb' = idb
            /\ \A n \in 1..Len(ls') :
                  ls'[n].k \notin {MirrorName(k) : k \in SecretKeys} =>
                      (n <= Len(ls) /\ ls[n] = ls'[n])]_vars

C25_Witness ==
    /\ BackupDone /\ last.mirrored
    /\ \A k \in StoreKeys : idb[k] # Absent

\* C29: with no failure of the secondary medium and no loss, whenever no
\* restore or backup is running, every secret-prefixed key in the primary
\* store has a mirror entry holding its primary value.
C29_PrimarySecretsAlwaysMirrored ==
    (clean /\ rs.pc = "idle" /\ wb.pc = "idle") => AllMirrored

====
